---- MODULE Spec2Model ----
(***************************************************************************)
(* Online aggregation estimators of src/ola.py: one estimator instance     *)
(* (AvgOla, FilterAvgOla, GroupByAvgOla, GroupBySumOla, GroupByCountOla or *)
(* FilterDistinctOla) is driven slice by slice over a sampled data frame.  *)
(* Column values are small integers or missing (NaN); arithmetic is exact  *)
(* (rationals), so floating-point rounding is not part of the model.       *)
(***************************************************************************)
EXTENDS Integers, Sequences, FiniteSets, TLC

\* Bounds of the model.
MaxRows == 3        \* rows of a generated data frame
MaxSlice == 3       \* rows of one slice
MaxVal == 1         \* largest cell value of a generated data frame
MaxUnsampled == 1   \* rows of the original frame that are not in the sample

\* ------------------------------------------------------------------ data
\* A missing cell is the empty tuple, a present cell the 1-tuple of its value.
NaN == <<>>
Cell(v) == <<v>>
\* A missing group label (groupby drops it, == never matches it).
NA == "NaN"
\* Group labels in their sort order.
KeyOrder == <<"x", "y", "z">>

Row(c, v) == [category |-> c, value |-> v]

GenCategories == {"x", "y", NA}
GenValues == {NaN} \cup {Cell(v) : v \in 1..MaxVal}
GenRows == {Row(c, v) : c \in GenCategories, v \in GenValues}

CatRank(c) == IF c = NA THEN 0 ELSE CHOOSE i \in 1..Len(KeyOrder) : KeyOrder[i] = c
ValRank(v) == IF v = NaN THEN 0 ELSE v[1]
RowRank(r) == CatRank(r.category) * (MaxVal + 1) + ValRank(r.value)

\* The generated data frames: every multiset of 1..MaxRows rows, listed once.
GenFrames ==
    UNION {{d \in [1..n -> GenRows] :
              \A i \in 1..(n - 1) : RowRank(d[i]) <= RowRank(d[i + 1])}
           : n \in 1..MaxRows}

\* The 6-row frame (category, value) and its two slices.
Scenario ==
    <<Row("x", Cell(1)), Row("x", Cell(2)), Row("y", Cell(3)),
      Row("y", Cell(4)), Row("y", Cell(5)), Row("z", Cell(6))>>
Slice1 == {1, 2, 3}
Slice2 == {4, 5, 6}

Classes ==
    {"AvgOla", "FilterAvgOla", "GroupByAvgOla", "GroupBySumOla",
     "GroupByCountOla", "FilterDistinctOla"}
Scaled == {"GroupBySumOla", "GroupByCountOla"}
Grouped == {"GroupByAvgOla", "GroupBySumOla", "GroupByCountOla"}

VARIABLES
    cls,                  \* the class of the estimator instance
    data,                 \* the sampled data frame the driver slices
    fed,                  \* indices of data already passed to process_slice
    slice_rows,           \* indices of the rows of the last slice
    outcome,              \* "none" before any call, then "ok" or the exception
    updates,              \* update_widget calls made by the last call
    ever_updated,         \* some call has reached update_widget
    widget,               \* widget.data[0]: x and y
    original_rows,
    sum, count,                          \* AvgOla
    filtered_sum, filtered_count,        \* FilterAvgOla
    grouped_sum, grouped_count,          \* GroupByAvgOla
    grouped_sums, total_rows_processed,  \* GroupBySumOla
    grouped_counts, rows_processed,      \* GroupByCountOla
    scaling_factor,                      \* last scaling factor computed
    hll                                  \* FilterDistinctOla

driver == <<cls, data, original_rows>>
call == <<fed, slice_rows, outcome, updates, ever_updated, widget>>
avg == <<sum, count>>
filteravg == <<filtered_sum, filtered_count>>
groupavg == <<grouped_sum, grouped_count>>
groupsum == <<grouped_sums, total_rows_processed>>
groupcount == <<grouped_counts, rows_processed>>
vars ==
    <<driver, call, avg, filteravg, groupavg, groupsum, groupcount,
      scaling_factor, hll>>

\* ------------------------------------------------------------ arithmetic
RECURSIVE Gcd(_, _)
Gcd(a, b) == IF b = 0 THEN a ELSE Gcd(b, a % b)

\* A float is a reduced fraction n/d; d = 0 is nan (n = 0) or inf (n = 1).
Frac(n, d) == LET g == Gcd(n, d) IN [n |-> n \div g, d |-> d \div g]
Float(n) == [n |-> n, d |-> 1]
nan == [n |-> 0, d |-> 0]
inf == [n |-> 1, d |-> 0]

\* numpy scalar true division: x / 0 is nan or inf, with a RuntimeWarning only.
NpTrueDiv(a, b) ==
    IF b = 0 THEN (IF a = 0 THEN nan ELSE inf) ELSE Frac(a, b)

\* value * factor for a finite value and a finite factor.
Times(v, f) == Frac(v * f.n, f.d)

\* ---------------------------------------------------------------- pandas
RECURSIVE SeriesSum(_)
SeriesSum(s) ==
    IF s = <<>> THEN 0
    ELSE (IF Head(s).value = NaN THEN 0 ELSE Head(s).value[1]) + SeriesSum(Tail(s))

RECURSIVE SeriesCount(_)
SeriesCount(s) ==
    IF s = <<>> THEN 0
    ELSE (IF Head(s).value = NaN THEN 0 ELSE 1) + SeriesCount(Tail(s))

\* df[df[filter_column] == filter_value]
filter_value == "y"
\* Faulty variant: the slice is not restricted to the matching rows.
NoFilter(df) == df
Filter(df) == SelectSeq(df, LAMBDA r : r.category = filter_value)

\* df.groupby(group_column): the labels present, sorted, missing labels dropped.
GroupBy(df) ==
    SelectSeq(KeyOrder, LAMBDA k : \E i \in 1..Len(df) : df[i].category = k)
GroupDf(df, k) == SelectSeq(df, LAMBDA r : r.category = k)

\* The column's dtype: int64 unless some value of the frame is missing.
IsFloat64(df) == \E i \in 1..Len(df) : df[i].value = NaN
Digit == <<"1", "2", "3", "4", "5", "6", "7", "8", "9">>
\* Series.astype(str), then str().
Str(v, float64) ==
    IF v = NaN THEN "nan"
    ELSE IF float64 THEN Digit[v[1]] \o ".0" ELSE Digit[v[1]]

\* ------------------------------------------------------------------ dict
\* An insertion-ordered dict: a sequence of <<key, value>> pairs.
DictKeys(d) == [i \in 1..Len(d) |-> d[i][1]]
DictValues(d) == [i \in 1..Len(d) |-> d[i][2]]
DictHas(d, k) == \E i \in 1..Len(d) : d[i][1] = k
DictGet(d, k) == d[CHOOSE i \in 1..Len(d) : d[i][1] = k][2]
\* Faulty variant: a new key goes first.
DictIAddFirst(d, k, v) ==
    IF DictHas(d, k)
    THEN [i \in 1..Len(d) |-> IF d[i][1] = k THEN <<k, d[i][2] + v>> ELSE d[i]]
    ELSE <<<<k, v>>>> \o d
\* defaultdict: d[k] += v, a new key going last.
DictIAdd(d, k, v) ==
    IF DictHas(d, k)
    THEN [i \in 1..Len(d) |-> IF d[i][1] = k THEN <<k, d[i][2] + v>> ELSE d[i]]
    ELSE Append(d, <<k, v>>)

\* for group, ... in groupby: d[group] += sum of the group's column
RECURSIVE SumLoop(_, _, _)
SumLoop(d, df, ks) ==
    IF ks = <<>> THEN d
    ELSE SumLoop(DictIAdd(d, Head(ks), SeriesSum(GroupDf(df, Head(ks)))), df, Tail(ks))

\* for group, ... in groupby: d[group] += count of the group's column
RECURSIVE CountLoop(_, _, _)
CountLoop(d, df, ks) ==
    IF ks = <<>> THEN d
    ELSE CountLoop(DictIAdd(d, Head(ks), SeriesCount(GroupDf(df, Head(ks)))), df, Tail(ks))

\* ---------------------------------------------------------------- driver
Unfed == (1..Len(data)) \ fed
\* A slice: some unfed rows in some order, possibly none.
Slices ==
    UNION {{q \in [1..n -> Unfed] : \A i, j \in 1..n : i # j => q[i] # q[j]}
           : n \in 0..MaxSlice}
Take(q) == [i \in 1..Len(q) |-> data[q[i]]]
Range(q) == {q[i] : i \in 1..Len(q)}

Init ==
    /\ cls \in Classes
    /\ data \in GenFrames \cup {Scenario}
    /\ original_rows \in
         IF cls \in Scaled THEN Len(data)..(Len(data) + MaxUnsampled) ELSE {0}
    /\ fed = {}
    /\ slice_rows = {}
    /\ outcome = "none"
    /\ updates = 0
    /\ ever_updated = FALSE
    /\ widget = [x |-> <<>>, y |-> <<>>]
    /\ sum = 0 /\ count = 0
    /\ filtered_sum = 0 /\ filtered_count = 0
    /\ grouped_sum = <<>> /\ grouped_count = <<>>
    /\ grouped_sums = <<>> /\ total_rows_processed = 0
    /\ grouped_counts = <<>> /\ rows_processed = 0
    /\ scaling_factor = nan
    /\ hll = {}

\* The call returns after update_widget(groups_list, values_list).
Returns(q, groups_list, values_list) ==
    /\ fed' = fed \cup Range(q)
    /\ slice_rows' = Range(q)
    /\ outcome' = "ok"
    /\ updates' = 1
    /\ ever_updated' = TRUE
    /\ widget' = [x |-> groups_list, y |-> values_list]

\* The call raises before it reaches update_widget.
Raises(q, exception) ==
    /\ fed' = fed \cup Range(q)
    /\ slice_rows' = Range(q)
    /\ outcome' = exception
    /\ updates' = 0
    /\ UNCHANGED <<ever_updated, widget>>

\* Faulty variant: the slice's sum replaces the running sum instead of adding to it.
AvgOla_process_slice_Assign ==
    /\ cls = "AvgOla"
    /\ \E q \in Slices :
         LET s == Take(q) IN
         /\ sum' = SeriesSum(s)
         /\ count' = count + SeriesCount(s)
         /\ Returns(q, <<"">>, <<NpTrueDiv(sum', count')>>)
    /\ UNCHANGED <<driver, filteravg, groupavg, groupsum, groupcount,
                   scaling_factor, hll>>

AvgOla_process_slice ==
    /\ cls = "AvgOla"
    /\ \E q \in Slices :
         LET s == Take(q) IN
         /\ sum' = sum + SeriesSum(s)
         /\ count' = count + SeriesCount(s)
         /\ Returns(q, <<"">>, <<NpTrueDiv(sum', count')>>)
    /\ UNCHANGED <<driver, filteravg, groupavg, groupsum, groupcount,
                   scaling_factor, hll>>

FilterAvgOla_process_slice ==
    /\ cls = "FilterAvgOla"
    /\ \E q \in Slices :
         LET trgt_col_values == Filter(Take(q)) IN
         /\ filtered_sum' = filtered_sum + SeriesSum(trgt_col_values)
         /\ filtered_count' = filtered_count + SeriesCount(trgt_col_values)
         /\ Returns(q, <<"">>, <<NpTrueDiv(filtered_sum', filtered_count')>>)
    /\ UNCHANGED <<driver, avg, groupavg, groupsum, groupcount,
                   scaling_factor, hll>>

GroupByAvgOla_process_slice ==
    /\ cls = "GroupByAvgOla"
    /\ \E q \in Slices :
         LET s == Take(q) IN
         /\ grouped_sum' = SumLoop(grouped_sum, s, GroupBy(s))
         /\ grouped_count' = CountLoop(grouped_count, s, GroupBy(s))
         /\ LET grps == DictKeys(grouped_sum')
                grp_means ==
                    [i \in 1..Len(grps) |->
                        NpTrueDiv(DictGet(grouped_sum', grps[i]),
                                  DictGet(grouped_count', grps[i]))]
            IN Returns(q, grps, grp_means)
    /\ UNCHANGED <<driver, avg, filteravg, groupsum, groupcount,
                   scaling_factor, hll>>

\* Faulty variant: only the rows that fall in a group are counted.
RowsProcessedGrouped(processed, df) ==
    processed + Len(SelectSeq(df, LAMBDA r : r.category # NA))
\* Faulty variant: rows_processed = len(df_slice).
RowsProcessedAssign(processed, df) == Len(df)
\* rows_processed += len(df_slice)
RowsProcessed(processed, df) == processed + Len(df)

\* Faulty variant: floor division.
PyFloorDiv(a, b) == Float(a \div b)
\* original_rows / rows_processed on Python ints, the divisor not zero.
PyTrueDiv(a, b) == Frac(a, b)

GroupBySumOla_process_slice ==
    /\ cls = "GroupBySumOla"
    /\ \E q \in Slices :
         LET s == Take(q) IN
         /\ total_rows_processed' = RowsProcessed(total_rows_processed, s)
         /\ IF total_rows_processed' = 0
            THEN /\ Raises(q, "ZeroDivisionError")
                 /\ UNCHANGED <<grouped_sums, scaling_factor>>
            ELSE /\ scaling_factor' = PyTrueDiv(original_rows, total_rows_processed')
                 /\ grouped_sums' = SumLoop(grouped_sums, s, GroupBy(s))
                 /\ LET values == DictValues(grouped_sums')
                        est_sums ==
                            [i \in 1..Len(values) |-> Times(values[i], scaling_factor')]
                    IN Returns(q, DictKeys(grouped_sums'), est_sums)
    /\ UNCHANGED <<driver, avg, filteravg, groupavg, groupcount, hll>>

GroupByCountOla_process_slice ==
    /\ cls = "GroupByCountOla"
    /\ \E q \in Slices :
         LET s == Take(q) IN
         /\ rows_processed' = RowsProcessed(rows_processed, s)
         /\ IF rows_processed' = 0
            THEN /\ Raises(q, "ZeroDivisionError")
                 /\ UNCHANGED <<grouped_counts, scaling_factor>>
            ELSE /\ scaling_factor' = PyTrueDiv(original_rows, rows_processed')
                 /\ grouped_counts' = CountLoop(grouped_counts, s, GroupBy(s))
                 /\ LET values == DictValues(grouped_counts')
                        est_cts ==
                            [i \in 1..Len(values) |-> Times(values[i], scaling_factor')]
                    IN Returns(q, DictKeys(grouped_counts'), est_cts)
    /\ UNCHANGED <<driver, avg, filteravg, groupavg, groupsum, hll>>

\* The HyperLogLog sketch is an external dependency: it is held as the set of
\* tokens it has received, and its estimate as the number of distinct tokens.
HllAdd(h, tokens) == h \cup tokens
HllCardinality(h) == Cardinality(h)

FilterDistinctOla_process_slice ==
    /\ cls = "FilterDistinctOla"
    /\ \E q \in Slices :
         LET filtered_df == Filter(Take(q))
             dist_val ==
                 {Str(filtered_df[i].value, IsFloat64(data)) : i \in 1..Len(filtered_df)}
         IN /\ hll' = HllAdd(hll, dist_val)
            /\ Returns(q, <<"">>, <<Float(HllCardinality(hll'))>>)
    /\ UNCHANGED <<driver, avg, filteravg, groupavg, groupsum, groupcount,
                   scaling_factor>>

Next ==
    \/ AvgOla_process_slice
    \/ FilterAvgOla_process_slice
    \/ GroupByAvgOla_process_slice
    \/ GroupBySumOla_process_slice
    \/ GroupByCountOla_process_slice
    \/ FilterDistinctOla_process_slice

Spec == Init /\ [][Next]_vars

\* ---------------------------------------------------------- exact values
\* The aggregates computed directly over a set of row indices of data.
All == 1..Len(data)
Present(S) == {i \in S : data[i].value # NaN}
InGroup(S, k) == {i \in S : data[i].category = k}
Matching(S) == {i \in S : data[i].category = filter_value}
Labels(S) == {data[i].category : i \in S} \ {NA}

RECURSIVE SetSum(_)
SetSum(S) ==
    IF S = {} THEN 0
    ELSE LET i == CHOOSE j \in S : TRUE IN data[i].value[1] + SetSum(S \ {i})

ExactSum(S) == SetSum(Present(S))
ExactCount(S) == Cardinality(Present(S))
ExactMean(S) ==
    IF ExactCount(S) = 0 THEN nan ELSE Frac(ExactSum(S), ExactCount(S))

SeqSet(s) == {s[i] : i \in 1..Len(s)}
IsPrefix(s, t) == Len(s) <= Len(t) /\ \A i \in 1..Len(s) : s[i] = t[i]

\* rows_processed of the scaled estimator, the raw per-group accumulator and
\* the exact per-group aggregate it estimates.
Processed ==
    IF cls = "GroupBySumOla" THEN total_rows_processed ELSE rows_processed
Raw == IF cls = "GroupBySumOla" THEN grouped_sums ELSE grouped_counts
ExactGroup(S, k) ==
    IF cls = "GroupBySumOla" THEN ExactSum(InGroup(S, k)) ELSE ExactCount(InGroup(S, k))
\* The divisor of the estimator's ratio.
Divisor ==
    CASE cls = "AvgOla" -> count
      [] cls = "FilterAvgOla" -> filtered_count
      [] cls \in Scaled -> Processed
      [] OTHER -> 1

\* ---------------------------------------------------------------- claims

\* C1: however the rows are partitioned into slices and in whatever order the
\* slices are fed to AvgOla.process_slice, sum, count and the emitted value are
\* the sum, count and mean computed directly over the non-missing values of the
\* rows fed; once every row is fed they are those of the whole frame.
C1_OrderIndependence ==
    (cls = "AvgOla" /\ outcome # "none") =>
        /\ sum = ExactSum(fed)
        /\ count = ExactCount(fed)
        /\ widget = [x |-> <<"">>, y |-> <<ExactMean(fed)>>]
        /\ fed = All => widget.y[1] = ExactMean(All)

\* The 6-row frame, fed as three slices that end with its first three rows.
C1_Witness ==
    /\ cls = "AvgOla" /\ data = Scenario /\ fed = All
    /\ slice_rows = Slice1
    /\ widget.y = <<Frac(7, 2)>>

\* C2: a scaled estimator built with original_rows = N whose slices have
\* covered the N rows exactly once has rows_processed = original_rows, a
\* scaling factor of 1 and emits for every group its exact sum (count).
C2_ScalingConvergence ==
    (cls \in Scaled /\ fed = All /\ original_rows = Len(data)) =>
        /\ outcome = "ok"
        /\ Processed = original_rows
        /\ scaling_factor = Float(1)
        /\ SeqSet(widget.x) = Labels(All)
        /\ Len(widget.x) = Cardinality(Labels(All))
        /\ Len(widget.y) = Len(widget.x)
        /\ \A i \in 1..Len(widget.x) :
              widget.y[i] = Float(ExactGroup(All, widget.x[i]))

\* A frame with a missing label and a missing value, covered in two slices.
C2_Witness ==
    /\ cls \in Scaled /\ fed = All /\ original_rows = Len(data)
    /\ Len(data) >= 2 /\ Cardinality(slice_rows) = 1
    /\ \E i \in All : data[i].category = NA
    /\ Len(widget.x) >= 1

\* C3: for the grouped estimators the labels of an emission are a prefix of
\* the labels of the next one: a label keeps its place and new labels are
\* appended, also when the slice has no row of a known group.
C3_GroupOrderPersists ==
    [][(cls \in Grouped) => IsPrefix(widget.x, (widget').x)]_vars

\* Two groups are known and the last slice had rows, none of the first group.
C3_Witness ==
    /\ cls \in Grouped /\ outcome = "ok"
    /\ Len(widget.x) >= 2
    /\ slice_rows # {}
    /\ \A i \in slice_rows : data[i].category # widget.x[1]

\* C4: a call that leaves the divisor at zero completes without failing and
\* suppresses the emission.
C4_UndefinedRatioSuppressed ==
    (outcome # "none" /\ cls \in Scaled \cup {"AvgOla", "FilterAvgOla"} /\ Divisor = 0) =>
        (outcome = "ok" /\ updates = 0)

\* C5: a call with an empty slice does not fail, changes no accumulator, and
\* what it emits is the previous emission.
C5_EmptySliceIsNoOp ==
    [][slice_rows' = {} =>
          /\ outcome' = "ok"
          /\ UNCHANGED <<avg, filteravg, groupavg, groupsum, groupcount, hll>>
          /\ (updates' = 1 /\ ever_updated) => widget' = widget]_vars

\* C6: every call reaches the sink exactly once, with as many groups as
\* values; a non-grouped estimator passes the empty label and one value.
C6_OneUpdatePerCall ==
    outcome # "none" =>
        /\ updates = 1
        /\ Len(widget.x) = Len(widget.y)
        /\ cls \notin Grouped => (widget.x = <<"">> /\ Len(widget.y) = 1)

\* C7: rows_processed never decreases and every emission after the
\* first reflects strictly more processed rows than the emission before it.
C7_StrictlyIncreasing ==
    [][(cls \in Scaled) =>
          /\ Processed' >= Processed
          /\ (updates' = 1 /\ ever_updated) => Processed' > Processed]_vars

\* C7, amended: rows_processed never decreases, it grows by the length of the
\* slice, and an emission reflects strictly more processed rows than the
\* emission before it exactly when the slice is not empty.
C7_NonDecreasing ==
    [][(cls \in Scaled) =>
          /\ Processed' >= Processed
          /\ Processed' = Processed + Cardinality(slice_rows')
          /\ (updates' = 1 /\ ever_updated) =>
                (Processed' > Processed <=> slice_rows' # {})]_vars

\* An empty slice after rows were processed: an emission at the same count.
C7_Witness ==
    /\ cls \in Scaled /\ outcome = "ok" /\ ever_updated
    /\ slice_rows = {} /\ fed # {} /\ Processed = Cardinality(fed)

\* C8: every group of GroupByAvgOla has a positive count, so that the division
\* sum[g] / count[g] of the emission is defined for every known group.
C8_CountPositive ==
    cls = "GroupByAvgOla" =>
        \A i \in 1..Len(grouped_count) : grouped_count[i][2] > 0

\* After a call with rows_processed > 0 every known group is emitted as its
\* raw accumulator times original_rows / rows_processed.
C9_Scaled ==
    (cls \in Scaled /\ outcome = "ok") =>
        /\ Processed = Cardinality(fed)
        /\ Processed > 0
        /\ widget.x = DictKeys(Raw)
        /\ Len(widget.y) = Len(Raw)
        /\ \A i \in 1..Len(Raw) :
              /\ Raw[i][2] = ExactGroup(fed, Raw[i][1])
              /\ widget.y[i] = Frac(Raw[i][2] * original_rows, Processed)

C9_OnScenario == cls = "GroupBySumOla" /\ data = Scenario /\ original_rows = 6

C9_AfterSlice1 ==
    (C9_OnScenario /\ outcome = "ok" /\ fed = {1, 2, 3} /\ slice_rows = Slice1) =>
        widget = [x |-> <<"x", "y">>, y |-> <<Float(6), Float(6)>>]

C9_AfterSlice2 ==
    (C9_OnScenario /\ fed = {1, 2, 3} /\ widget.x = <<"x", "y">> /\ slice_rows' = Slice2) =>
        widget' = [x |-> <<"x", "y", "z">>, y |-> <<Float(3), Float(12), Float(6)>>]

\* C9: the scaled estimators emit raw[g] * original_rows / rows_processed for
\* every known group, rows_processed counting every row absorbed; on the 6-row
\* frame with original_rows = 6 GroupBySumOla emits [x,y] [6,6] after slice1
\* and [x,y,z] [3,12,6] after slice2.
C9_ScaledEmission ==
    /\ [](C9_Scaled /\ C9_AfterSlice1)
    /\ [][C9_AfterSlice2]_vars

C9_Witness ==
    /\ C9_OnScenario /\ fed = All /\ slice_rows = Slice2
    /\ scaling_factor = Float(1)
    /\ widget = [x |-> <<"x", "y", "z">>, y |-> <<Float(3), Float(12), Float(6)>>]

C10_Filtered ==
    /\ cls = "FilterAvgOla" =>
          /\ filtered_sum = ExactSum(Matching(fed))
          /\ filtered_count = ExactCount(Matching(fed))
    /\ cls = "FilterDistinctOla" =>
          /\ hll = {Str(data[i].value, IsFloat64(data)) : i \in Matching(fed)}
          /\ (data = Scenario /\ fed = All) => hll = {"3", "4", "5"}

C10_ReAdd ==
    (cls = "FilterDistinctOla" /\ ever_updated /\ hll' = hll) => (widget').y = widget.y

\* C10: rows that fail the filter contribute nothing: sum and count (the
\* tokens of the sketch) are those of the matching rows fed, "3", "4", "5"
\* on the 6-row frame, and a call that adds no new token leaves the reported
\* cardinality as it was.
C10_FilteredOnly ==
    /\ []C10_Filtered
    /\ [][C10_ReAdd]_vars

\* The 6-row frame fed whole, the last slice holding rows that do not match.
C10_Witness ==
    /\ cls = "FilterDistinctOla" /\ data = Scenario /\ fed = All
    /\ \E i \in slice_rows : data[i].category # filter_value
    /\ hll = {"3", "4", "5"} /\ widget.y = <<Float(3)>>
====
